---- MODULE Spec2Model ----
(***************************************************************************)
(* A model of handshake.py: the toy Diffie-Hellman handshake between one   *)
(* DHClient and one DHServer.                                              *)
(*                                                                         *)
(* Two specifications share the role methods:                              *)
(*   Spec     the two roles as objects whose methods a caller may invoke   *)
(*            in any order with any message (the roles keep no protocol    *)
(*            state besides a, A, b, B and shared);                        *)
(*   SpecRun  main(): the five calls in order, for NumRuns runs that each  *)
(*            build their own roles from the module-level DH_PARAMS.       *)
(*                                                                         *)
(* Optional[int] fields are modelled as sequences: <<>> is None, <<v>> is  *)
(* the integer v.  assert statements are modelled as executed (the         *)
(* interpreter's default; python -O would strip them).                     *)
(***************************************************************************)
EXTENDS Integers, Sequences, FiniteSets, TLC

VARIABLES
    DH_PARAMS,  \* the module-level parameters object
    cli,        \* Spec: the DHClient instance
    srv,        \* Spec: the DHServer instance
    cres,       \* Spec: the last call on cli: method, argument, exception, result
    sres,       \* Spec: the last call on srv
    started,    \* Spec: cli.start() has been called
    helloed,    \* Spec: srv.on_client_hello() has been called
    pc,         \* SpecRun: per run, the line of main() to execute next
    client,     \* SpecRun: per run, main's local client
    server,     \* SpecRun: per run, main's local server
    ch,         \* SpecRun: per run, main's local ch (<<>> while unbound)
    sh,         \* SpecRun: per run, main's local sh
    ck,         \* SpecRun: per run, main's local ck
    sk,         \* SpecRun: per run, main's local sk
    fin_srv,    \* SpecRun: per run, main's local fin_srv
    fin_cli,    \* SpecRun: per run, main's local fin_cli
    printed,    \* SpecRun: per run, the "Handshake Result" lines main printed
    args,       \* SpecPow: the arguments [base, exp, mod] of a dh function call
    result      \* SpecPow: the function last applied to args and what it gave

callVars == <<cli, srv, cres, sres, started, helloed>>

runVars == <<pc, client, server, ch, sh, ck, sk, fin_srv, fin_cli, printed>>

powVars == <<args, result>>

vars == <<DH_PARAMS, cli, srv, cres, sres, started, helloed,
          pc, client, server, ch, sh, ck, sk, fin_srv, fin_cli, printed,
          args, result>>

\* ------------------------------------------------------------------ bounds

\* SpecRun configures the runs with every group 3 <= p <= MaxModulus, 2 <= g < p.
MaxModulus == 23

\* Spec configures the roles with every group 3 <= p <= MaxCallModulus, 2 <= g < p.
MaxCallModulus == 6

\* Spec delivers public values -MaxOutOfRange .. p - 1 + MaxOutOfRange.
MaxOutOfRange == 1

\* SpecRun performs this many runs of main().
NumRuns == 2

\* SpecPow calls the dh functions with every base, exponent and modulus in
\* -MaxNegArg .. MaxPowArg.
MaxPowArg == 6

MaxNegArg == 2

\* ----------------------------------------------------------- Optional[int]

None == <<>>

Some(v) == <<v>>

\* ------------------------------------------------------ built-in pow(b, e, m)

Abs(n) == IF n < 0 THEN -n ELSE n

\* Binary exponentiation that forgets to reduce after multiplying by the base.
RECURSIVE ModExpUnreduced(_, _, _)
ModExpUnreduced(a, e, c) ==
    IF e = 0 THEN 1 % c
    ELSE LET h  == ModExpUnreduced(a, e \div 2, c)
             sq == (h * h) % c
         IN  IF e % 2 = 1 THEN sq * a ELSE sq

\* Left-to-right binary exponentiation of a reduced base, 0 <= a < c, e >= 0.
RECURSIVE ModExp(_, _, _)
ModExp(a, e, c) ==
    IF e = 0 THEN 1 % c
    ELSE LET h  == ModExp(a, e \div 2, c)
             sq == (h * h) % c
         IN  IF e % 2 = 1 THEN (sq * a) % c ELSE sq

\* The extended Euclid loop of the interpreter's modular inverse: the state
\* <<a, n, b, c>> after the loop has run to n = 0.
RECURSIVE InvLoop(_, _, _, _)
InvLoop(a, n, b, c) ==
    IF n = 0 THEN <<a, b>>
    ELSE LET q == a \div n
             r == a % n
         IN  InvLoop(n, r, c, b - q * c)

\* Python's three-argument pow on integers: [ok |-> FALSE] is ValueError.
pow(base, exp, mod) ==
    IF mod = 0 THEN [ok |-> FALSE, val |-> 0]
    ELSE LET c == Abs(mod)
             fix(z) == IF mod < 0 /\ z # 0 THEN z - c ELSE z
         IN  IF c = 1 THEN [ok |-> TRUE, val |-> 0]
             ELSE IF exp < 0
                  THEN LET inv == InvLoop(base, c, 1, 0)
                       IN  IF inv[1] # 1 THEN [ok |-> FALSE, val |-> 0]
                           ELSE [ok |-> TRUE,
                                 val |-> fix(ModExp(inv[2] % c, -exp, c))]
                  ELSE [ok |-> TRUE, val |-> fix(ModExp(base % c, exp, c))]

\* ----------------------------------------------------------------- messages

DHParams(p, g) == [p |-> p, g |-> g]

ClientHello == [type |-> "ClientHello", requested_group |-> "DH_23_5"]

ServerHello(selected_group, params) ==
    [type |-> "ServerHello", selected_group |-> selected_group, params |-> params]

ClientKeyShare(A) == [type |-> "ClientKeyShare", A |-> A]

ServerKeyShare(B) == [type |-> "ServerKeyShare", B |-> B]

Finished(ok) == [type |-> "Finished", ok |-> ok]

\* ------------------------------------------------------------ dh functions

\* dh_public with base and exponent exchanged.
dh_publicSwapped(g, a, p) == pow(a, g, p)

dh_public(g, a, p) == pow(g, a, p)

\* dh_shared with base and exponent exchanged.
dh_sharedSwapped(pub_other, a, p) == pow(a, pub_other, p)

dh_shared(pub_other, a, p) == pow(pub_other, a, p)

\* -------------------------------------------------------------- call results

\* A call that returned: the receiver after the call and the returned values.
Return(self, ret) == [self |-> self, exc |-> "", ret |-> ret]

\* A call that raised: the receiver as the exception left it, nothing returned.
Raise(self, exc) == [self |-> self, exc |-> exc, ret |-> <<>>]

\* ------------------------------------------------------------------ DHClient

ClientExponent == 6

DHClient(params) == [params |-> params, a |-> None, A |-> None, shared |-> None]

start(self) == Return(self, <<ClientHello>>)

\* on_server_hello without its assert.
on_server_helloUnchecked(self, msg) ==
    LET s1 == [self EXCEPT !.a = Some(ClientExponent)]
        r  == dh_public(s1.params.g, s1.a[1], s1.params.p)
    IN  IF ~r.ok THEN Raise(s1, "ValueError")
        ELSE Return([s1 EXCEPT !.A = Some(r.val)], <<ClientKeyShare(r.val)>>)

\* on_server_hello taking the group order p - 1 as its exponent.
on_server_helloOrderExponent(self, msg) ==
    IF msg.params # self.params THEN Raise(self, "AssertionError")
    ELSE LET s1 == [self EXCEPT !.a = Some(self.params.p - 1)]
             r  == dh_public(s1.params.g, s1.a[1], s1.params.p)
         IN  IF ~r.ok THEN Raise(s1, "ValueError")
             ELSE Return([s1 EXCEPT !.A = Some(r.val)], <<ClientKeyShare(r.val)>>)

on_server_hello(self, msg) ==
    IF msg.params # self.params THEN Raise(self, "AssertionError")
    ELSE LET s1 == [self EXCEPT !.a = Some(ClientExponent)]
             r  == dh_public(s1.params.g, s1.a[1], s1.params.p)
         IN  IF ~r.ok THEN Raise(s1, "ValueError")
             ELSE Return([s1 EXCEPT !.A = Some(r.val)], <<ClientKeyShare(r.val)>>)

\* on_server_keyshare without its assert, an unset exponent read as 0.
on_server_keyshareDefaulted(self, msg) ==
    LET r == dh_shared(msg.B, IF self.a = None THEN 0 ELSE self.a[1], self.params.p)
    IN  IF ~r.ok THEN Raise(self, "ValueError")
        ELSE Return([self EXCEPT !.shared = Some(r.val)], <<Finished(TRUE)>>)

\* on_server_keyshare that rejects a peer value outside 1 < B < p - 1.
on_server_keyshareValidating(self, msg) ==
    IF self.a = None THEN Raise(self, "AssertionError")
    ELSE IF ~(1 < msg.B /\ msg.B < self.params.p - 1) THEN Raise(self, "ValueError")
    ELSE LET r == dh_shared(msg.B, self.a[1], self.params.p)
         IN  IF ~r.ok THEN Raise(self, "ValueError")
             ELSE Return([self EXCEPT !.shared = Some(r.val)], <<Finished(TRUE)>>)

on_server_keyshare(self, msg) ==
    IF self.a = None THEN Raise(self, "AssertionError")
    ELSE LET r == dh_shared(msg.B, self.a[1], self.params.p)
         IN  IF ~r.ok THEN Raise(self, "ValueError")
             ELSE Return([self EXCEPT !.shared = Some(r.val)], <<Finished(TRUE)>>)

\* ------------------------------------------------------------------ DHServer

ServerExponent == 15

DHServer(params) == [params |-> params, b |-> None, B |-> None, shared |-> None]

\* on_client_hello generating the server's key pair already.
on_client_helloEager(self, msg) ==
    LET r == dh_public(self.params.g, ServerExponent, self.params.p)
    IN  Return([self EXCEPT !.b = Some(ServerExponent), !.B = Some(r.val)],
               <<ServerHello("DH_23_5", self.params)>>)

on_client_hello(self, msg) == Return(self, <<ServerHello("DH_23_5", self.params)>>)

\* on_client_keyshare storing its public value as the generator of params.
on_client_keyshareRebasing(self, msg) ==
    LET s1 == [self EXCEPT !.b = Some(ServerExponent)]
        rB == dh_public(s1.params.g, s1.b[1], s1.params.p)
    IN  IF ~rB.ok THEN Raise(s1, "ValueError")
        ELSE LET s2 == [s1 EXCEPT !.B = Some(rB.val), !.params.g = rB.val]
                 rK == dh_shared(msg.A, s2.b[1], s2.params.p)
             IN  IF ~rK.ok THEN Raise(s2, "ValueError")
                 ELSE Return([s2 EXCEPT !.shared = Some(rK.val)],
                             <<ServerKeyShare(rB.val), Finished(TRUE)>>)

\* on_client_keyshare deriving the secret from its own public value.
on_client_keyshareOwnPublic(self, msg) ==
    LET s1 == [self EXCEPT !.b = Some(ServerExponent)]
        rB == dh_public(s1.params.g, s1.b[1], s1.params.p)
    IN  IF ~rB.ok THEN Raise(s1, "ValueError")
        ELSE LET s2 == [s1 EXCEPT !.B = Some(rB.val)]
                 rK == dh_shared(s2.B[1], s2.b[1], s2.params.p)
             IN  IF ~rK.ok THEN Raise(s2, "ValueError")
                 ELSE Return([s2 EXCEPT !.shared = Some(rK.val)],
                             <<ServerKeyShare(rB.val), Finished(TRUE)>>)

\* (self.b and self.params are read from s1: assigning self.B changes neither.)
on_client_keyshare(self, msg) ==
    LET s1 == [self EXCEPT !.b = Some(ServerExponent)]
        rB == dh_public(s1.params.g, s1.b[1], s1.params.p)
    IN  IF ~rB.ok THEN Raise(s1, "ValueError")
        ELSE LET s2 == [s1 EXCEPT !.B = Some(rB.val)]
                 rK == dh_shared(msg.A, s1.b[1], s1.params.p)
             IN  IF ~rK.ok THEN Raise(s2, "ValueError")
                 ELSE Return([s2 EXCEPT !.shared = Some(rK.val)],
                             <<ServerKeyShare(rB.val), Finished(TRUE)>>)

\* ---------------------------------------------------------------------------
\* Spec: a caller holding one client and one server, both built from
\* DH_PARAMS, that invokes any method at any time with any message.
\* ---------------------------------------------------------------------------

Runs == 1 .. NumRuns

\* The groups with modulus > generator > 1 up to a largest modulus.
Groups(maxp) ==
    { q \in { DHParams(p, g) : p \in 3 .. maxp, g \in 2 .. maxp } : q.g < q.p }

CallGroups == Groups(MaxCallModulus)

RunGroups == Groups(MaxModulus)

PubValues == (0 - MaxOutOfRange) .. (DH_PARAMS.p - 1 + MaxOutOfRange)

NoCall == [op |-> "", arg |-> <<>>, exc |-> "", ret |-> <<>>]

Called(op, arg, out) == [op |-> op, arg |-> arg, exc |-> out.exc, ret |-> out.ret]

NotStarted == [r \in Runs |-> <<>>]

NoArgs == [base |-> 0, exp |-> 0, mod |-> 1]

NoResult == [fn |-> "", ok |-> TRUE, val |-> 0]

InitCall ==
    /\ DH_PARAMS \in CallGroups
    /\ cli = DHClient(DH_PARAMS)
    /\ srv = DHServer(DH_PARAMS)
    /\ cres = NoCall
    /\ sres = NoCall
    /\ started = FALSE
    /\ helloed = FALSE
    /\ pc = [r \in Runs |-> "off"]
    /\ client = NotStarted
    /\ server = NotStarted
    /\ ch = NotStarted
    /\ sh = NotStarted
    /\ ck = NotStarted
    /\ sk = NotStarted
    /\ fin_srv = NotStarted
    /\ fin_cli = NotStarted
    /\ printed = NotStarted
    /\ args = NoArgs
    /\ result = NoResult

CallStart ==
    LET out == start(cli)
    IN  /\ cli' = out.self
        /\ cres' = Called("start", <<>>, out)
        /\ started' = TRUE
        /\ UNCHANGED <<DH_PARAMS, powVars, srv, sres, helloed, runVars>>

CallOnServerHello ==
    \E q \in CallGroups :
        LET msg == ServerHello("DH_23_5", q)
            out == on_server_hello(cli, msg)
        IN  /\ cli' = out.self
            /\ cres' = Called("on_server_hello", <<msg>>, out)
            /\ UNCHANGED <<DH_PARAMS, powVars, srv, sres, started, helloed, runVars>>

CallOnServerKeyshare ==
    \E B \in PubValues :
        LET msg == ServerKeyShare(B)
            out == on_server_keyshare(cli, msg)
        IN  /\ cli' = out.self
            /\ cres' = Called("on_server_keyshare", <<msg>>, out)
            /\ UNCHANGED <<DH_PARAMS, powVars, srv, sres, started, helloed, runVars>>

CallOnClientHello ==
    LET out == on_client_hello(srv, ClientHello)
    IN  /\ srv' = out.self
        /\ sres' = Called("on_client_hello", <<ClientHello>>, out)
        /\ helloed' = TRUE
        /\ UNCHANGED <<DH_PARAMS, powVars, cli, cres, started, runVars>>

CallOnClientKeyshare ==
    \E A \in PubValues :
        LET msg == ClientKeyShare(A)
            out == on_client_keyshare(srv, msg)
        IN  /\ srv' = out.self
            /\ sres' = Called("on_client_keyshare", <<msg>>, out)
            /\ UNCHANGED <<DH_PARAMS, powVars, cli, cres, started, helloed, runVars>>

Next ==
    \/ CallStart
    \/ CallOnServerHello
    \/ CallOnServerKeyshare
    \/ CallOnClientHello
    \/ CallOnClientKeyshare

Spec == InitCall /\ [][Next]_vars

\* ---------------------------------------------------------------------------
\* SpecRun: main().  Each run builds its own client and server from DH_PARAMS
\* and makes the five calls in order; a call that raises ends the run.
\* ---------------------------------------------------------------------------

InitRun ==
    /\ DH_PARAMS \in RunGroups
    /\ cli = <<>>
    /\ srv = <<>>
    /\ cres = NoCall
    /\ sres = NoCall
    /\ started = FALSE
    /\ helloed = FALSE
    /\ pc = [r \in Runs |-> "l132"]
    /\ client = [r \in Runs |-> DHClient(DH_PARAMS)]
    /\ server = [r \in Runs |-> DHServer(DH_PARAMS)]
    /\ ch = NotStarted
    /\ sh = NotStarted
    /\ ck = NotStarted
    /\ sk = NotStarted
    /\ fin_srv = NotStarted
    /\ fin_cli = NotStarted
    /\ printed = NotStarted
    /\ args = NoArgs
    /\ result = NoResult

\* The line after a call: the next line when it returned, the traceback when
\* it raised.
After(out, next) == IF out.exc = "" THEN next ELSE "raised"

\* ch = client.start()
MainStart(r) ==
    /\ pc[r] = "l132"
    /\ LET out == start(client[r])
       IN  /\ client' = [client EXCEPT ![r] = out.self]
           /\ ch' = [ch EXCEPT ![r] = out.ret]
           /\ pc' = [pc EXCEPT ![r] = After(out, "l135")]
    /\ UNCHANGED <<DH_PARAMS, powVars, callVars, server, sh, ck, sk, fin_srv, fin_cli, printed>>

\* sh = server.on_client_hello(ch)
MainOnClientHello(r) ==
    /\ pc[r] = "l135"
    /\ LET out == on_client_hello(server[r], ch[r][1])
       IN  /\ server' = [server EXCEPT ![r] = out.self]
           /\ sh' = [sh EXCEPT ![r] = out.ret]
           /\ pc' = [pc EXCEPT ![r] = After(out, "l136")]
    /\ UNCHANGED <<DH_PARAMS, powVars, callVars, client, ch, ck, sk, fin_srv, fin_cli, printed>>

\* on_server_hello with the exponent sampled instead of fixed.
MainOnServerHelloSampled(r) ==
    /\ pc[r] = "l136"
    /\ \E e \in {ClientExponent, ClientExponent + 1} :
           LET pub == dh_public(client[r].params.g, e, client[r].params.p).val
           IN  /\ client' = [client EXCEPT ![r].a = Some(e), ![r].A = Some(pub)]
               /\ ck' = [ck EXCEPT ![r] = <<ClientKeyShare(pub)>>]
               /\ pc' = [pc EXCEPT ![r] = "l139"]
    /\ UNCHANGED <<DH_PARAMS, powVars, callVars, server, ch, sh, sk, fin_srv, fin_cli, printed>>

\* ck = client.on_server_hello(sh)
MainOnServerHello(r) ==
    /\ pc[r] = "l136"
    /\ LET out == on_server_hello(client[r], sh[r][1])
       IN  /\ client' = [client EXCEPT ![r] = out.self]
           /\ ck' = [ck EXCEPT ![r] = out.ret]
           /\ pc' = [pc EXCEPT ![r] = After(out, "l139")]
    /\ UNCHANGED <<DH_PARAMS, powVars, callVars, server, ch, sh, sk, fin_srv, fin_cli, printed>>

\* on_client_keyshare fed a constant key share instead of main's ck.
MainOnClientKeyshareStale(r) ==
    /\ pc[r] = "l139"
    /\ LET out == on_client_keyshare(server[r], ClientKeyShare(1))
       IN  /\ server' = [server EXCEPT ![r] = out.self]
           /\ sk' = [sk EXCEPT ![r] = SubSeq(out.ret, 1, 1)]
           /\ fin_srv' = [fin_srv EXCEPT ![r] = SubSeq(out.ret, 2, 2)]
           /\ pc' = [pc EXCEPT ![r] = After(out, "l140")]
    /\ UNCHANGED <<DH_PARAMS, powVars, callVars, client, ch, sh, ck, fin_cli, printed>>

\* on_client_keyshare on one server object that every run holds.
MainOnClientKeyshareOneServer(r) ==
    /\ pc[r] = "l139"
    /\ LET out == on_client_keyshare(server[r], ck[r][1])
       IN  /\ server' = [x \in Runs |-> out.self]
           /\ sk' = [sk EXCEPT ![r] = SubSeq(out.ret, 1, 1)]
           /\ fin_srv' = [fin_srv EXCEPT ![r] = SubSeq(out.ret, 2, 2)]
           /\ pc' = [pc EXCEPT ![r] = After(out, "l140")]
    /\ UNCHANGED <<DH_PARAMS, powVars, callVars, client, ch, sh, ck, fin_cli, printed>>

\* sk, fin_srv = server.on_client_keyshare(ck)
MainOnClientKeyshare(r) ==
    /\ pc[r] = "l139"
    /\ LET out == on_client_keyshare(server[r], ck[r][1])
       IN  /\ server' = [server EXCEPT ![r] = out.self]
           /\ sk' = [sk EXCEPT ![r] = SubSeq(out.ret, 1, 1)]
           /\ fin_srv' = [fin_srv EXCEPT ![r] = SubSeq(out.ret, 2, 2)]
           /\ pc' = [pc EXCEPT ![r] = After(out, "l140")]
    /\ UNCHANGED <<DH_PARAMS, powVars, callVars, client, ch, sh, ck, fin_cli, printed>>

\* fin_cli = client.on_server_keyshare(sk)
MainOnServerKeyshare(r) ==
    /\ pc[r] = "l140"
    /\ LET out == on_server_keyshare(client[r], sk[r][1])
       IN  /\ client' = [client EXCEPT ![r] = out.self]
           /\ fin_cli' = [fin_cli EXCEPT ![r] = out.ret]
           /\ pc' = [pc EXCEPT ![r] = After(out, "l142")]
    /\ UNCHANGED <<DH_PARAMS, powVars, callVars, server, ch, sh, ck, sk, fin_srv, printed>>

\* The "Handshake Result" block.
MainReport(r) ==
    /\ pc[r] = "l142"
    /\ printed' = [printed EXCEPT ![r] =
           <<[client_shared |-> client[r].shared,
              server_shared |-> server[r].shared,
              equal         |-> client[r].shared = server[r].shared,
              fin_cli       |-> fin_cli[r][1].ok,
              fin_srv       |-> fin_srv[r][1].ok]>>]
    /\ pc' = [pc EXCEPT ![r] = "done"]
    /\ UNCHANGED <<DH_PARAMS, powVars, callVars, client, server, ch, sh, ck, sk, fin_srv, fin_cli>>

NextRun ==
    \E r \in Runs :
        \/ MainStart(r)
        \/ MainOnClientHello(r)
        \/ MainOnServerHello(r)
        \/ MainOnClientKeyshare(r)
        \/ MainOnServerKeyshare(r)
        \/ MainReport(r)

SpecRun == InitRun /\ [][NextRun]_vars

\* The next line of run r.
RunStep(r) ==
    \/ MainStart(r)
    \/ MainOnClientHello(r)
    \/ MainOnServerHello(r)
    \/ MainOnClientKeyshare(r)
    \/ MainOnServerKeyshare(r)
    \/ MainReport(r)

\* main() is straight-line code of plain calls: a run that has a next line
\* executes it.
SpecRunFair == SpecRun /\ \A r \in Runs : WF_vars(RunStep(r))

\* ---------------------------------------------------------------------------
\* SpecPow: dh_public and dh_shared as pure functions, applied to every
\* triple of integer arguments in the bounds.
\* ---------------------------------------------------------------------------

PowArgs == (0 - MaxNegArg) .. MaxPowArg

InitPow ==
    /\ args \in [base : PowArgs, exp : PowArgs, mod : PowArgs]
    /\ result = NoResult
    /\ DH_PARAMS = DHParams(23, 5)
    /\ cli = <<>>
    /\ srv = <<>>
    /\ cres = NoCall
    /\ sres = NoCall
    /\ started = FALSE
    /\ helloed = FALSE
    /\ pc = [r \in Runs |-> "off"]
    /\ client = NotStarted
    /\ server = NotStarted
    /\ ch = NotStarted
    /\ sh = NotStarted
    /\ ck = NotStarted
    /\ sk = NotStarted
    /\ fin_srv = NotStarted
    /\ fin_cli = NotStarted
    /\ printed = NotStarted

Applied(fn, out) == [fn |-> fn, ok |-> out.ok, val |-> out.val]

\* dh_public(g, a, p) with g = base, a = exp, p = mod.
ApplyPublic ==
    /\ result' = Applied("dh_public", dh_public(args.base, args.exp, args.mod))
    /\ UNCHANGED <<DH_PARAMS, args, callVars, runVars>>

\* dh_shared(pub_other, a, p) with pub_other = base, a = exp, p = mod.
ApplyShared ==
    /\ result' = Applied("dh_shared", dh_shared(args.base, args.exp, args.mod))
    /\ UNCHANGED <<DH_PARAMS, args, callVars, runVars>>

NextPow == ApplyPublic \/ ApplyShared

SpecPow == InitPow /\ [][NextPow]_vars

\* base^e mod m by e multiplications, each reduced: the value the functions
\* are to return for base >= 0, e >= 0, m >= 1.
RECURSIVE RepeatedMul(_, _, _)
RepeatedMul(b, e, m) ==
    IF e = 0 THEN 1 % m ELSE (b * RepeatedMul(b, e - 1, m)) % m

\* ---------------------------------------------------------------------------
\* Properties of main() (SpecRun)
\* ---------------------------------------------------------------------------

\* Both exponents the roles use lie in [1, p - 2] for the configured group.
ExponentsInRange ==
    /\ 1 <= ClientExponent /\ ClientExponent <= DH_PARAMS.p - 2
    /\ 1 <= ServerExponent /\ ServerExponent <= DH_PARAMS.p - 2

\* The secrets the two sides derive with exponents a and b in the group q.
ClientSecret(q, a, b) == dh_shared(dh_public(q.g, b, q.p).val, a, q.p)

ServerSecret(q, a, b) == dh_shared(dh_public(q.g, a, q.p).val, b, q.p)

\* C1 (agreement): for every configured group, a run of main() that reaches
\* its end holds the same shared secret on both sides and prints Equal? True;
\* and for that group, every pair of exponents in [1, p - 2] gives the two
\* sides the same secret through dh_public and dh_shared.
Agreement ==
    /\ \A r \in Runs : pc[r] = "done" =>
           /\ client[r].shared # None
           /\ client[r].shared = server[r].shared
           /\ printed[r][1].equal
    /\ (\A r \in Runs : pc[r] = "done") =>
           \A a, b \in 1 .. (DH_PARAMS.p - 2) :
               /\ ClientSecret(DH_PARAMS, a, b).ok
               /\ ClientSecret(DH_PARAMS, a, b) = ServerSecret(DH_PARAMS, a, b)

\* A finished run in a group where the code's exponents 6 and 15 are in range.
AgreementWitness ==
    \E r \in Runs :
        /\ pc[r] = "done"
        /\ ExponentsInRange
        /\ client[r].shared # None
        /\ client[r].shared = server[r].shared

\* C2 (end-to-end scenario): with p = 23 and g = 5 (and the exponents 6 and
\* 15 of the code) a finished run has A = 8, B = 19, the shared secret 2 on
\* both sides, Equal? True and both Finished flags true.
EndToEnd ==
    \A r \in Runs :
        (pc[r] = "done" /\ DH_PARAMS = DHParams(23, 5)) =>
            /\ client[r].a = Some(6)
            /\ server[r].b = Some(15)
            /\ client[r].A = Some(8)
            /\ ck[r] = <<ClientKeyShare(8)>>
            /\ server[r].B = Some(19)
            /\ sk[r] = <<ServerKeyShare(19)>>
            /\ client[r].shared = Some(2)
            /\ server[r].shared = Some(2)
            /\ printed[r][1].equal
            /\ fin_cli[r] = <<Finished(TRUE)>>
            /\ fin_srv[r] = <<Finished(TRUE)>>
            /\ printed[r][1].fin_cli /\ printed[r][1].fin_srv

EndToEndWitness ==
    \E r \in Runs :
        /\ pc[r] = "done"
        /\ DH_PARAMS = DHParams(23, 5)
        /\ client[r].shared = Some(2)
        /\ server[r].shared = Some(2)

\* C10 (determinism): two runs of main() on fresh roles, with the same
\* parameters and the exponents of the code, end with the same client public
\* value, the same server public value and the same secret on each side.
Determinism ==
    \A r1, r2 \in Runs :
        (pc[r1] = "done" /\ pc[r2] = "done") =>
            /\ client[r1].A = client[r2].A
            /\ server[r1].B = server[r2].B
            /\ client[r1].shared = client[r2].shared
            /\ server[r1].shared = server[r2].shared
            /\ printed[r1] = printed[r2]

DeterminismWitness ==
    \E r1, r2 \in Runs :
        /\ r1 # r2
        /\ pc[r1] = "done" /\ pc[r2] = "done"
        /\ client[r1].A # None /\ client[r1].A = client[r2].A
        /\ client[r1].shared # None /\ client[r1].shared = client[r2].shared

\* ---------------------------------------------------------------------------
\* Properties of the roles under arbitrary calls (Spec)
\* ---------------------------------------------------------------------------

\* Both roles' last call was the key-share step and returned Finished(ok=True).
BothFinishedOk ==
    /\ cres.op = "on_server_keyshare" /\ cres.ret = <<Finished(TRUE)>>
    /\ sres.op = "on_client_keyshare" /\ Len(sres.ret) = 2
    /\ sres.ret[2] = Finished(TRUE)

\* Each side was handed the public value the other side holds.
HonestDelivery ==
    /\ srv.B # None /\ cres.arg[1].B = srv.B[1]
    /\ cli.A # None /\ sres.arg[1].A = cli.A[1]

\* C3 (state-order enforcement, as claimed): on_server_hello on a client whose
\* start() was never called, and on_client_keyshare on a server whose
\* on_client_hello was never called, fail and return no key share.
StateOrderEnforced ==
    /\ (~started /\ cres.op = "on_server_hello") =>
           (cres.exc # "" /\ cres.ret = <<>>)
    /\ (~helloed /\ sres.op = "on_client_keyshare") =>
           (sres.exc # "" /\ sres.ret = <<>>)

\* C4 (group mismatch): an on_server_hello call whose ServerHello carries
\* params different from the client's raises, returns no ClientKeyShare and
\* changes no field of the client (a, A and shared stay as they were, unset
\* on a fresh client).
GroupMismatchRejected ==
    [][ (cres'.op = "on_server_hello" /\ cres'.arg[1].params # cli'.params) =>
            /\ cres'.exc = "AssertionError"
            /\ cres'.ret = <<>>
            /\ cli' = cli ]_vars

GroupMismatchWitness ==
    /\ cres.op = "on_server_hello"
    /\ cres.arg[1].params # cli.params
    /\ cres.exc = "AssertionError"
    /\ cli.a = None /\ cli.A = None /\ cli.shared = None

\* C5 (success only on agreement, as claimed): whenever both roles have
\* returned Finished(ok=True), whatever public values were delivered, the two
\* shared secrets are equal.
SuccessOnlyOnAgreement == BothFinishedOk => cli.shared = srv.shared

\* C5 (amended): when both roles have returned Finished(ok=True) and each was
\* handed the public value the other role holds, the two shared secrets are
\* set and equal.
SuccessOnHonestDelivery ==
    (BothFinishedOk /\ HonestDelivery) =>
        (cli.shared # None /\ cli.shared = srv.shared)

SuccessOnHonestDeliveryWitness ==
    /\ BothFinishedOk
    /\ HonestDelivery
    /\ cli.shared # None
    /\ cli.shared = srv.shared

\* C6 (set exactly once, as claimed): once set, a role's private exponent,
\* public value and shared secret never change again, whatever is called.
SetExactlyOnce ==
    [][ /\ (cli.a # None => cli'.a = cli.a)
        /\ (cli.A # None => cli'.A = cli.A)
        /\ (cli.shared # None => cli'.shared = cli.shared)
        /\ (srv.b # None => srv'.b = srv.b)
        /\ (srv.B # None => srv'.B = srv.B)
        /\ (srv.shared # None => srv'.shared = srv.shared) ]_vars

\* C7 (client key-share precondition): while the client has processed no
\* ServerHello (a is unset), its shared secret is unset and an
\* on_server_keyshare call raises and returns no Finished.
KeyshareBeforeHelloFails ==
    cli.a = None =>
        /\ cli.shared = None
        /\ cres.op = "on_server_keyshare" =>
               (cres.exc = "AssertionError" /\ cres.ret = <<>>)

KeyshareBeforeHelloWitness ==
    /\ cli.a = None
    /\ cres.op = "on_server_keyshare"
    /\ cres.exc = "AssertionError"
    /\ cli.shared = None

\* C8 (no way out of Finished, as claimed): a key share delivered to a role
\* that already holds a shared secret, and a ServerHello delivered to a
\* client that already sent its key share, are rejected and change no field.
NoWayOutOfFinished ==
    [][ /\ (cli.shared # None /\ cres' # cres /\ cres'.op = "on_server_keyshare") =>
               (cres'.exc # "" /\ cli' = cli)
        /\ (srv.shared # None /\ sres' # sres /\ sres'.op = "on_client_keyshare") =>
               (sres'.exc # "" /\ srv' = srv)
        /\ (cli.a # None /\ cres' # cres /\ cres'.op = "on_server_hello") =>
               (cres'.exc # "" /\ cli' = cli) ]_vars

\* C9 (hello steps generate no key material): start() changes no field of
\* the client and returns a ClientHello, on_client_hello changes no field of
\* the server and returns a ServerHello carrying exactly the server's params;
\* on fresh roles the key material is still unset afterwards.
HelloStepsKeepKeyMaterial ==
    [][ /\ cres'.op = "start" =>
               (cli' = cli /\ cres'.exc = "" /\ cres'.ret = <<ClientHello>>)
        /\ sres'.op = "on_client_hello" =>
               /\ srv' = srv
               /\ sres'.exc = ""
               /\ sres'.ret = <<ServerHello("DH_23_5", srv.params)>>
        /\ (cres = NoCall /\ cres'.op = "start") =>
               (cli'.a = None /\ cli'.A = None /\ cli'.shared = None)
        /\ (sres = NoCall /\ sres'.op = "on_client_hello") =>
               (srv'.b = None /\ srv'.B = None /\ srv'.shared = None) ]_vars

HelloStepsWitness ==
    /\ cres.op = "start" /\ cres.ret = <<ClientHello>>
    /\ sres.op = "on_client_hello" /\ sres.ret[1].params = srv.params
    /\ cli = DHClient(DH_PARAMS)
    /\ srv = DHServer(DH_PARAMS)

\* ---------------------------------------------------------------------------
\* Further properties of main() (SpecRun)
\* ---------------------------------------------------------------------------

\* The roles at the end of main() run on its own with the parameters q: the
\* five calls applied one after the other to fresh roles.
AloneRun(q) ==
    LET o1 == start(DHClient(q))
        o2 == on_client_hello(DHServer(q), o1.ret[1])
        o3 == on_server_hello(o1.self, o2.ret[1])
        o4 == on_client_keyshare(o2.self, o3.ret[1])
        o5 == on_server_keyshare(o3.self, o4.ret[1])
    IN  [client |-> o5.self, server |-> o4.self]

\* C11 (handshake independence): when the steps of the runs interleave, a
\* step of one run changes no role and no local of another run, and every
\* run that reaches its end holds the roles it holds when run alone.
HandshakeIndependence ==
    [][ \A r \in Runs :
            /\ pc'[r] = pc[r] =>
                   /\ client'[r] = client[r] /\ server'[r] = server[r]
                   /\ ch'[r] = ch[r] /\ sh'[r] = sh[r]
                   /\ ck'[r] = ck[r] /\ sk'[r] = sk[r]
                   /\ fin_srv'[r] = fin_srv[r] /\ fin_cli'[r] = fin_cli[r]
            /\ pc'[r] = "done" =>
                   /\ client'[r] = AloneRun(DH_PARAMS).client
                   /\ server'[r] = AloneRun(DH_PARAMS).server ]_vars

\* Two runs caught mid-way: one already derived the server's secret, the
\* other's roles are still untouched.
HandshakeIndependenceWitness ==
    \E r1, r2 \in Runs :
        /\ r1 # r2
        /\ pc[r1] = "l140" /\ server[r1].shared # None
        /\ pc[r2] = "l136" /\ client[r2] = DHClient(DH_PARAMS)
        /\ server[r2] = DHServer(DH_PARAMS)

\* A set exponent x lies in [1, p - 2].
InRange(x, q) == x # None => (1 <= x[1] /\ x[1] < q.p - 1)

\* C14 (private exponent range, as claimed): whatever group the roles are
\* configured with, a private exponent, once set, satisfies 1 <= x < p - 1.
PrivateExponentInRange ==
    \A r \in Runs :
        InRange(client[r].a, client[r].params) /\ InRange(server[r].b, server[r].params)

\* C14 (amended): in a group of modulus at least 17 (the group p = 23 of the
\* program among them) a private exponent, once set, satisfies
\* 1 <= x < p - 1.
PrivateExponentInRangeFrom17 ==
    \A r \in Runs :
        /\ client[r].params.p >= 17 => InRange(client[r].a, client[r].params)
        /\ server[r].params.p >= 17 => InRange(server[r].b, server[r].params)

\* Both exponents set in the smallest group the amended claim covers.
PrivateExponentWitness ==
    \E r \in Runs :
        /\ DH_PARAMS.p = 17
        /\ client[r].a # None /\ InRange(client[r].a, client[r].params)
        /\ server[r].b # None /\ InRange(server[r].b, server[r].params)

\* C15 (group parameters are never mutated): no step of a run changes
\* DH_PARAMS or the params a role holds; in every state of a run both roles
\* hold the parameters the run started with, and modulus > generator > 1.
ParamsNeverMutated ==
    [][ /\ DH_PARAMS' = DH_PARAMS
        /\ \A r \in Runs :
               /\ client'[r].params = client[r].params
               /\ server'[r].params = server[r].params
               /\ client'[r].params = DH_PARAMS
               /\ server'[r].params = DH_PARAMS
               /\ DH_PARAMS.p > DH_PARAMS.g /\ DH_PARAMS.g > 1 ]_vars

\* A finished run whose roles still hold the program's parameters (23, 5).
ParamsNeverMutatedWitness ==
    \E r \in Runs :
        /\ pc[r] = "done"
        /\ DH_PARAMS = DHParams(23, 5)
        /\ client[r].params = DH_PARAMS
        /\ server[r].params = DH_PARAMS

\* ---------------------------------------------------------------------------
\* Order and termination of main() (SpecRunFair)
\* ---------------------------------------------------------------------------

\* The lines of main() in order, and the place of a line in that order.
Lines == <<"l132", "l135", "l136", "l139", "l140", "l142", "done">>

LineNo(l) == CHOOSE i \in 1 .. Len(Lines) : Lines[i] = l

\* Run r has executed the call on line l.
Past(r, l) == LineNo(pc[r]) > LineNo(l)

\* Each call made so far was fed what the call before it returned and left
\* its result in the roles; the server's secret is there before the client's.
StepsChained(r) ==
    /\ pc[r] \in { Lines[i] : i \in 1 .. Len(Lines) }
    /\ Past(r, "l132") <=> ch[r] = <<ClientHello>>
    /\ Past(r, "l135") <=> sh[r] = <<ServerHello("DH_23_5", DH_PARAMS)>>
    /\ Past(r, "l136") <=> client[r].A # None
    /\ Past(r, "l136") => ck[r] = <<ClientKeyShare(client[r].A[1])>>
    /\ Past(r, "l139") <=> server[r].shared # None
    /\ Past(r, "l139") =>
           /\ sk[r] = <<ServerKeyShare(server[r].B[1])>>
           /\ fin_srv[r] = <<Finished(TRUE)>>
           /\ server[r].shared =
                  Some(RepeatedMul(ck[r][1].A, server[r].b[1], DH_PARAMS.p))
    /\ Past(r, "l140") <=> client[r].shared # None
    /\ Past(r, "l140") =>
           /\ fin_cli[r] = <<Finished(TRUE)>>
           /\ client[r].shared =
                  Some(RepeatedMul(sk[r][1].B, client[r].a[1], DH_PARAMS.p))
    /\ Past(r, "l142") <=> printed[r] # <<>>
    /\ client[r].shared # None => server[r].shared # None

\* C17 (step order and termination): every run executes the five calls
\* start, on_client_hello, on_server_hello, on_client_keyshare,
\* on_server_keyshare once each in that order, each fed what the call before
\* returned, sets the server's secret strictly before the client's, and
\* always reaches the end of the report.
StepOrderAndTermination ==
    /\ [][ \A r \in Runs :
               /\ pc'[r] # pc[r] => LineNo(pc'[r]) = LineNo(pc[r]) + 1
               /\ (server[r].shared = None /\ server'[r].shared # None) =>
                      client'[r].shared = None ]_vars
    /\ [](\A r \in Runs : StepsChained(r))
    /\ \A r \in Runs : <>(pc[r] = "done")

\* The five calls are made, the report is not yet printed.
StepOrderWitness ==
    \E r \in Runs :
        /\ pc[r] = "l142"
        /\ client[r].shared # None /\ server[r].shared # None
        /\ printed[r] = <<>>

\* ---------------------------------------------------------------------------
\* Properties of dh_public and dh_shared (SpecPow)
\* ---------------------------------------------------------------------------

\* C12 (modular exponentiation range): for a non-negative base, a
\* non-negative exponent and a modulus >= 1 (1 and 2 included), dh_public and
\* dh_shared return without error the value base^exponent mod modulus, which
\* lies in [0, modulus).
ModExpInRange ==
    (result.fn # "" /\ args.base >= 0 /\ args.exp >= 0 /\ args.mod >= 1) =>
        /\ result.ok
        /\ 0 <= result.val /\ result.val < args.mod
        /\ result.val = RepeatedMul(args.base, args.exp, args.mod)

\* dh_shared applied in the degenerate group of modulus 2.
ModExpInRangeWitness ==
    /\ result.fn = "dh_shared"
    /\ args.mod = 2 /\ args.base = 3 /\ args.exp = 5
    /\ result.ok /\ result.val = 1

\* C13 (invalid numeric input is rejected, as claimed): a call with a modulus
\* <= 0, a negative exponent or a negative base ends in an error and returns
\* no integer.
InvalidInputRejected ==
    (result.fn # "" /\ (args.mod <= 0 \/ args.exp < 0 \/ args.base < 0)) =>
        ~result.ok

\* ---------------------------------------------------------------------------
\* Further properties of the roles under arbitrary calls (Spec)
\* ---------------------------------------------------------------------------

\* C16 (client accepts any peer public value): when the last call on a client
\* that holds a private exponent was on_server_keyshare with a public value B
\* in [0, p), 0, 1 and p - 1 included, the call returned Finished(ok=True) and
\* the client holds shared = B^a mod p.
AnyPeerValueAccepted ==
    ( /\ cres.op = "on_server_keyshare"
      /\ cli.a # None
      /\ 0 <= cres.arg[1].B /\ cres.arg[1].B < cli.params.p ) =>
        /\ cres.exc = ""
        /\ cres.ret = <<Finished(TRUE)>>
        /\ cli.shared = Some(RepeatedMul(cres.arg[1].B, cli.a[1], cli.params.p))

\* The degenerate value p - 1 was delivered and accepted.
AnyPeerValueWitness ==
    /\ cres.op = "on_server_keyshare"
    /\ cli.a # None
    /\ cres.arg[1].B = cli.params.p - 1
    /\ cres.ret = <<Finished(TRUE)>>
    /\ cli.shared # None

\* The key material x, X, shared of a role configured with q is consistent.
Consistent(x, X, shared, q) ==
    /\ X # None =>
           /\ x # None
           /\ X[1] = RepeatedMul(q.g, x[1], q.p)
           /\ 0 <= X[1] /\ X[1] < q.p
    /\ shared # None =>
           /\ x # None
           /\ 0 <= shared[1] /\ shared[1] < q.p

\* C18 (key-material consistency): in every state of either role, the public
\* value is set only if the private exponent is and then equals
\* g^exponent mod p, the shared secret is set only if the private exponent
\* is, and every set public value and shared secret lies in [0, p).
KeyMaterialConsistent ==
    /\ Consistent(cli.a, cli.A, cli.shared, cli.params)
    /\ Consistent(srv.b, srv.B, srv.shared, srv.params)

\* Both roles hold a secret, the client's derived from a delivered value
\* outside [0, p).
KeyMaterialWitness ==
    /\ cli.shared # None /\ srv.shared # None
    /\ cli.A # None /\ srv.B # None
    /\ cres.op = "on_server_keyshare" /\ cres.arg[1].B < 0

====
